---------------------------- MODULE Spec2Model ----------------------------
(***************************************************************************)
(* Model of the secure-DFU transport of pc-ble-driver-js                   *)
(* (api/dfu/dfuTransport.js): the Command flow (sendInitPacket), the Data  *)
(* flow (sendFirmware), create-and-write with retry, the object writer     *)
(* and a DFU target that stores what it is sent.                           *)
(***************************************************************************)
EXTENDS Integers, Sequences, FiniteSets, TLC

(***************************************************************************)
(* Bounds of the model.                                                    *)
(***************************************************************************)
\* longest init packet / firmware image handed to a send operation
MaxLen == 4
\* largest maximum_size the target advertises in its SELECT response
MaxSize == 3
\* largest number of bytes the target already holds when the call starts
MaxTarget == 4
\* largest MTU size given to setMtuSize
MaxMtu == 1
\* the operations of one kind called on a transport, the PRN values and the
\* payload lengths where several operations are called
MaxCalls == 2
MaxPrn == 2
MaxLifeLen == 1
\* the payload lengths and the bytes the target holds where termination is
\* checked
MaxLiveLen == 2
MaxLiveTarget == 1

(***************************************************************************)
(* Program constants.                                                      *)
(***************************************************************************)
MAX_RETRIES == 3
\* "Default is 20" (setMtuSize's documentation)
DefaultMtuSize == 20

\* the byte values payloads are made of: Image[i] is the i-th byte of every
\* payload, Flip(b) a byte that differs from b
Image == <<17, 34, 51, 68, 85, 102, 119, 136, 153>>
Flip(b) == 255 - b

(***************************************************************************)
(* CRC-32 (IEEE 802.3) as the crc package computes it: table driven,       *)
(* reflected polynomial 0xEDB88320, initial value and final XOR            *)
(* 0xFFFFFFFF, the previous CRC as the seed.  A 32-bit word is the pair    *)
(* <<high 16 bits, low 16 bits>>.                                          *)
(***************************************************************************)
Bit(a, k) == (a \div k) % 2
XorBit(a, b, k) == (Bit(a, k) + Bit(b, k)) % 2
Xor4 == [a \in 0..15, b \in 0..15 |->
           XorBit(a, b, 1) + (2 * XorBit(a, b, 2))
             + (4 * XorBit(a, b, 4)) + (8 * XorBit(a, b, 8))]
Xor8(a, b) == Xor4[a % 16, b % 16] + (16 * Xor4[a \div 16, b \div 16])
Xor16(a, b) == Xor8(a % 256, b % 256) + (256 * Xor8(a \div 256, b \div 256))
Xor32(a, b) == <<Xor16(a[1], b[1]), Xor16(a[2], b[2])>>
Shr1(a) == <<a[1] \div 2, (a[2] \div 2) + (32768 * (a[1] % 2))>>
Shr8(a) == <<a[1] \div 256, (a[2] \div 256) + (256 * (a[1] % 256))>>
\* 0xEDB88320
Poly == <<60856, 33568>>
\* 0xFFFFFFFF
Ones == <<65535, 65535>>
Zero32 == <<0, 0>>

RECURSIVE CrcBits(_, _)
CrcBits(c, n) ==
    IF n = 0 THEN c
    ELSE CrcBits(IF c[2] % 2 = 1 THEN Xor32(Shr1(c), Poly) ELSE Shr1(c), n - 1)

TABLE == [n \in 0..255 |-> CrcBits(<<0, n>>, 8)]

RECURSIVE CrcLoop(_, _, _)
CrcLoop(c, buf, i) ==
    IF i > Len(buf) THEN c
    ELSE CrcLoop(Xor32(TABLE[Xor8(c[2] % 256, buf[i])], Shr8(c)), buf, i + 1)

\* crc.crc32(buf, previous)
crc32upd(buf, previous) == Xor32(CrcLoop(Xor32(previous, Ones), buf, 1), Ones)
\* crc.crc32(buf)
crc32(buf) == crc32upd(buf, Zero32)

(***************************************************************************)
(* JavaScript values and array helpers.                                    *)
(***************************************************************************)
\* an optional parameter: Undefined when the caller does not pass it,
\* Arg(x) when it passes x
Undefined == <<>>
Arg(x) == <<x>>

Min(a, b) == IF a < b THEN a ELSE b
Max(a, b) == IF a > b THEN a ELSE b

\* Array.prototype.slice's relative index: negative counts from the end
RelIndex(i, len) == IF i < 0 THEN Max(len + i, 0) ELSE Min(i, len)
\* arr.slice(start, end)
Slice(arr, start, end) ==
    SubSeq(arr, RelIndex(start, Len(arr)) + 1, RelIndex(end, Len(arr)))
\* arr.slice(start)
SliceFrom(arr, start) == Slice(arr, start, Len(arr))

\* a % b of JavaScript for b > 0: the sign follows the dividend
JsMod(a, b) == IF a >= 0 THEN a % b ELSE 0 - ((0 - a) % b)

\* splitArray(data, chunkSize): consecutive chunks of chunkSize elements,
\* the last one possibly shorter
RECURSIVE splitArray(_, _)
splitArray(data, chunkSize) ==
    IF Len(data) = 0 THEN <<>>
    ELSE <<SubSeq(data, 1, Min(chunkSize, Len(data)))>>
           \o splitArray(SubSeq(data, Min(chunkSize, Len(data)) + 1, Len(data)), chunkSize)

RECURSIVE Concat(_)
Concat(seqs) == IF Len(seqs) = 0 THEN <<>> ELSE Head(seqs) \o Concat(Tail(seqs))

(***************************************************************************)
(* Error codes.                                                            *)
(***************************************************************************)
ABORTED == "ABORTED"
NOTIFICATION_TIMEOUT == "NOTIFICATION_TIMEOUT"
NOTIFICATION_START_ERROR == "NOTIFICATION_START_ERROR"
INVALID_OFFSET == "INVALID_OFFSET"
INVALID_CRC == "INVALID_CRC"
INIT_PACKET_TOO_LARGE == "INIT_PACKET_TOO_LARGE"
\* a result code other than SUCCESS in the target's response
OPERATION_FAILED == "OPERATION_FAILED"
OK == "ok"

COMMAND == "COMMAND"
DATA == "DATA"

(***************************************************************************)
(* The pure helpers of DfuTransport.                                       *)
(***************************************************************************)
\* mutant: one attempt too many
shouldRetry_OneMore(attempts, error) ==
    attempts <= MAX_RETRIES /\ error # ABORTED /\ error # NOTIFICATION_TIMEOUT

\* mutant: an aborted attempt is retried
shouldRetry_Aborted(attempts, error) ==
    attempts < MAX_RETRIES /\ error # NOTIFICATION_TIMEOUT

_shouldRetry(attempts, error) ==
    attempts < MAX_RETRIES /\ error # ABORTED /\ error # NOTIFICATION_TIMEOUT

\* mutant: the remaining partial object is as long as a whole object
getRemainingPartialObject_WholeObject(data, maximumSize, offset) ==
    IF offset = 0 \/ JsMod(offset, maximumSize) = 0 \/ offset = Len(data)
    THEN <<>>
    ELSE Slice(data, offset, offset + maximumSize)

_getRemainingPartialObject(data, maximumSize, offset) ==
    LET remainder == JsMod(offset, maximumSize)
    IN  IF offset = 0 \/ remainder = 0 \/ offset = Len(data)
        THEN <<>>
        ELSE Slice(data, offset, offset + maximumSize - remainder)

\* mutant: a fully written object is not resumed
canResume_OffByOne(data, offset, crc) ==
    ~(offset = 0 \/ offset >= Len(data) \/ crc # crc32(Slice(data, 0, offset)))

\* mutant: the CRC of the bytes still to write instead of the bytes written
canResume_WrongSlice(data, offset, crc) ==
    ~(offset = 0 \/ offset > Len(data) \/ crc # crc32(SliceFrom(data, offset)))

_canResumePartiallyWrittenObject(data, offset, crc) ==
    ~(offset = 0 \/ offset > Len(data) \/ crc # crc32(Slice(data, 0, offset)))

\* mutant: an init packet of exactly the maximum size is refused
validateInitPacketSize_Strict(initPacket, maxSize) ==
    IF Len(initPacket) >= maxSize THEN INIT_PACKET_TOO_LARGE ELSE OK

\* the error _validateInitPacketSize throws, or OK
_validateInitPacketSize(initPacket, maxSize) ==
    IF Len(initPacket) > maxSize THEN INIT_PACKET_TOO_LARGE ELSE OK

\* mutant: the crc32 of the response is not compared
validateProgress_OffsetOnly(progressInfo, response) ==
    IF progressInfo.offset # response.offset THEN INVALID_OFFSET ELSE OK

\* mutant: only the crc32 of the response is compared
validateProgress_CrcOnly(progressInfo, response) ==
    IF progressInfo.crc32 # response.crc32 THEN INVALID_CRC ELSE OK

\* mutant: the crc32 is compared before the offset
validateProgress_CrcFirst(progressInfo, response) ==
    IF progressInfo.crc32 # response.crc32 THEN INVALID_CRC
    ELSE IF progressInfo.offset # response.offset THEN INVALID_OFFSET
    ELSE OK

\* the error the callback of _validateProgress throws for this response, or OK
_validateProgress(progressInfo, response) ==
    IF progressInfo.offset # response.offset THEN INVALID_OFFSET
    ELSE IF progressInfo.crc32 # response.crc32 THEN INVALID_CRC
    ELSE OK

\* mutant: the objects are one byte longer than the maximum size
getFirmwareState_WideObjects(firmware, selectResponse) ==
    LET maximumSize == selectResponse.maximumSize
        offset == selectResponse.offset
        crc == selectResponse.crc32
        partial0 == _getRemainingPartialObject(firmware, maximumSize, offset)
        rollback == Len(partial0) > 0
                      /\ ~_canResumePartiallyWrittenObject(firmware, offset, crc)
        startOffset == IF rollback THEN offset - maximumSize + Len(partial0) ELSE offset
        startCrc32 == IF rollback THEN crc32(Slice(firmware, 0, startOffset)) ELSE crc
        partialObject == IF rollback THEN <<>> ELSE partial0
        dataToSend == SliceFrom(firmware, startOffset + Len(partialObject))
    IN  [offset |-> startOffset,
         crc32 |-> startCrc32,
         objects |-> splitArray(dataToSend, maximumSize + 1),
         partialObject |-> partialObject]

\* mutant: the whole firmware is sent whatever the target holds
getFirmwareState_WholeFirmware(firmware, selectResponse) ==
    LET maximumSize == selectResponse.maximumSize
        offset == selectResponse.offset
        crc == selectResponse.crc32
        partial0 == _getRemainingPartialObject(firmware, maximumSize, offset)
        rollback == Len(partial0) > 0
                      /\ ~_canResumePartiallyWrittenObject(firmware, offset, crc)
        startOffset == IF rollback THEN offset - maximumSize + Len(partial0) ELSE offset
        startCrc32 == IF rollback THEN crc32(Slice(firmware, 0, startOffset)) ELSE crc
        partialObject == IF rollback THEN <<>> ELSE partial0
    IN  [offset |-> startOffset,
         crc32 |-> startCrc32,
         objects |-> splitArray(firmware, maximumSize),
         partialObject |-> partialObject]

_getFirmwareState(firmware, selectResponse) ==
    LET maximumSize == selectResponse.maximumSize
        offset == selectResponse.offset
        crc == selectResponse.crc32
        partial0 == _getRemainingPartialObject(firmware, maximumSize, offset)
        rollback == Len(partial0) > 0
                      /\ ~_canResumePartiallyWrittenObject(firmware, offset, crc)
        startOffset == IF rollback THEN offset - maximumSize + Len(partial0) ELSE offset
        startCrc32 == IF rollback THEN crc32(Slice(firmware, 0, startOffset)) ELSE crc
        partialObject == IF rollback THEN <<>> ELSE partial0
        dataToSend == SliceFrom(firmware, startOffset + Len(partialObject))
    IN  [offset |-> startOffset,
         crc32 |-> startCrc32,
         objects |-> splitArray(dataToSend, maximumSize),
         partialObject |-> partialObject]

(***************************************************************************)
(* State.                                                                  *)
(*   writer  DfuObjectWriter: its MTU size, PRN and abort flag             *)
(*   pw      the packet writer of the writeObject call in progress: its    *)
(*           rolling offset and crc32 and the packets still to write       *)
(*   t       DfuTransport: _isOpen, and the promise chain of the send      *)
(*           operation in progress: where it stands (pc: the request or    *)
(*           write in flight), the values its closures hold (payload,      *)
(*           objects, data, offset, crc32, attempts, progress), and what   *)
(*           it has issued so far: nCreate, nPackets, nChecksum, nExecute  *)
(*           count the CREATE requests, packet writes, CALCULATE_CRC and   *)
(*           EXECUTE requests issued, creates the CREATE requests of the   *)
(*           current object, nExecuted the EXECUTE requests that           *)
(*           succeeded, nObjects the objects _createAndWriteObject was     *)
(*           called for; faulted tells whether a request failed, a         *)
(*           response misreported the target or abort() was called,        *)
(*           failed whether a request or a validation failed or a response *)
(*           misreported the target; events holds the progressUpdate       *)
(*           events it has emitted.  Across operations it holds the        *)
(*           promise chains of setPrn (prn) and close (closing) and counts *)
(*           the send operations started (nCalls), the close() calls       *)
(*           (nClose) and the requests to the adapter to start and stop    *)
(*           notifications (nStart, nStop)                                 *)
(*   dfu     the Dfu object of dfu.js: the arguments performDFU keeps      *)
(*           (zipFilePath, adapter, instanceId: whether each is set),      *)
(*           where performDFU stands (pc), the manifest, the update types  *)
(*           whose dat_file and bin_file the zip lacks (absent), the       *)
(*           updates array of _fetchUpdates, the promise jobs waiting      *)
(*           to run (queue, first in first out), the elements each         *)
(*           Promise.all still waits for (remaining), whether the promise  *)
(*           of _fetchUpdates has resolved, and what performDFU logged     *)
(*   target  the DFU target: maximum_size, its PRN, whether notifications  *)
(*           of the control point are enabled and, per object type, the    *)
(*           bytes of the executed objects and of the object being written *)
(***************************************************************************)
VARIABLES writer, pw, t, target, dfu

vars == <<writer, pw, t, target, dfu>>

ObjectTypes == {COMMAND, DATA}
None == "none"

\* the bytes a target holds after receiving k bytes of a payload, byte f of
\* them (if f > 0) not being the payload's
Contents(k, f) == [i \in 1..k |-> IF i = f THEN Flip(Image[i]) ELSE Image[i]]
\* the payloads handed to the send operations
Payload(len) == SubSeq(Image, 1, len)

\* a slot of the target: the bytes of the objects executed, the bytes of
\* the object being written, and the CRC-32 the target keeps of the former
\* (execCrc32) and of both (crc32)
Slot(exec, obj) ==
    [exec |-> exec, obj |-> obj, execCrc32 |-> crc32(exec), crc32 |-> crc32(exec \o obj)]

\* the slots a target that followed the protocol may hold for bytes c:
\* a Command object is one object; Data objects are executed when full,
\* the last full one possibly not yet
Slots(type, c, maxSize) ==
    IF type = COMMAND
    THEN {Slot(<<>>, c)}
    ELSE {Slot(SubSeq(c, 1, e), SubSeq(c, e + 1, Len(c))) :
            e \in {x \in 0..Len(c) : x % maxSize = 0 /\ Len(c) - x <= maxSize}}

TargetOffset(type) == Len(target[type].exec) + Len(target[type].obj)
TargetCrc32(type) == target[type].crc32

\* the target's handling of the requests and of a packet
TargetCreate(type) ==
    [target EXCEPT ![type].obj = <<>>, ![type].crc32 = target[type].execCrc32]
TargetWrite(type, packet) ==
    [target EXCEPT ![type].obj = @ \o packet, ![type].crc32 = crc32upd(packet, @)]
TargetExecute(type) ==
    [target EXCEPT ![type].exec = @ \o target[type].obj, ![type].obj = <<>>,
                   ![type].execCrc32 = target[type].crc32]

NoProgress == [offset |-> 0, crc32 |-> Zero32]
\* no CALCULATE_CRC response received in this attempt
NoCrcResponse == [received |-> FALSE, offset |-> 0, crc32 |-> Zero32]
IdlePacketWriter == [offset |-> 0, crc32 |-> Zero32, packets |-> <<>>]

\* a promise chain not started
NoCall == [pc |-> "idle", n |-> 0, result |-> None, nCalls |-> 0]

\* the transport the constructor leaves
NewTransport ==
    [isOpen |-> FALSE,
     prn |-> NoCall, closing |-> NoCall,
     nCalls |-> 0, nClose |-> 0, nStart |-> 0, nStop |-> 0,
     call |-> None, type |-> None, payload |-> <<>>,
     pc |-> "idle", result |-> None,
     selected |-> FALSE,
     selectResponse |-> [maximumSize |-> 0, offset |-> 0, crc32 |-> Zero32],
     state |-> [offset |-> 0, crc32 |-> Zero32, objects |-> <<>>,
                partialObject |-> <<>>],
     resumed |-> FALSE,
     objects |-> <<>>, data |-> <<>>,
     offset |-> Undefined, crc32 |-> Undefined,
     retry |-> FALSE, attempts |-> 0,
     progress |-> NoProgress,
     crcResponse |-> NoCrcResponse,
     lastCreate |-> [type |-> None, size |-> 0],
     nCreate |-> 0, creates |-> 0, nPackets |-> 0, nChecksum |-> 0,
     nExecute |-> 0, nExecuted |-> 0, nObjects |-> 0, faulted |-> FALSE,
     failed |-> FALSE,
     events |-> <<>>]

\* for (let updateType of [...]) in _fetchUpdates
UpdateTypes == <<"softdevice", "bootloader", "softdevice_bootloader", "application">>

\* the keys a manifest may hold: the four update types and one other key
ManifestKeys == {UpdateTypes[i] : i \in DOMAIN UpdateTypes} \cup {"unknown"}

\* Dfu's constructor, with its default argument (adapter = null)
NewDfu ==
    [zipFilePath |-> FALSE, adapter |-> FALSE, instanceId |-> FALSE,
     pc |-> "idle", thrown |-> FALSE, fault |-> None,
     manifest |-> {}, absent |-> {}, updates |-> <<>>,
     queue |-> <<>>, remaining |-> [i \in DOMAIN UpdateTypes |-> 0],
     resolved |-> FALSE, logged |-> None]

\* constructor
Init ==
    /\ writer = [mtuSize |-> DefaultMtuSize, abort |-> FALSE, prn |-> 0]
    /\ pw = IdlePacketWriter
    /\ t = NewTransport
    /\ dfu = NewDfu
    /\ \E maxSize \in 1..MaxSize, k \in 0..MaxTarget :
         \E f \in 0..k :
           \E command \in Slots(COMMAND, Contents(k, f), maxSize),
              data \in Slots(DATA, Contents(k, f), maxSize) :
             target = [maximumSize |-> maxSize, COMMAND |-> command, DATA |-> data,
                       prn |-> 0, notifying |-> FALSE]

(***************************************************************************)
(* The promise chain of DfuTransport, as functions of the transport state. *)
(***************************************************************************)
Running == t.pc \notin {"idle", "settled"}

_getObjectTypeString(type) ==
    CASE type = COMMAND -> "init packet"
      [] type = DATA -> "firmware"
      [] OTHER -> "unknown object"

\* this.emit('progressUpdate', {stage, offset})
Emit(s, stage, offset) ==
    [s EXCEPT !.events = Append(@, [stage |-> stage, offset |-> offset])]

_emitResumeEvent(s, offset, type) ==
    Emit(s, "Resuming " \o _getObjectTypeString(type) \o " transfer", offset)

\* mutant: the type of the writer's event is not handed on
emitTransferEvent_NoType(s, offset, type) ==
    Emit(s, "Transferring " \o _getObjectTypeString(None), offset)

_emitTransferEvent(s, offset, type) ==
    Emit(s, "Transferring " \o _getObjectTypeString(type), offset)

_emitInitializeEvent(s, type) ==
    Emit(s, "Initializing " \o _getObjectTypeString(type), 0)

\* the promise of the send operation resolves / rejects
Resolve(s, progress) == [s EXCEPT !.pc = "settled", !.result = OK, !.progress = progress]
Reject(s, error) == [s EXCEPT !.pc = "settled", !.result = error]

\* tryWrite: createObject(type, data.length) is issued
tryWrite(s) ==
    [s EXCEPT !.pc = "create",
              !.nCreate = @ + 1, !.creates = @ + 1,
              !.crcResponse = NoCrcResponse,
              !.lastCreate = [type |-> s.type, size |-> Len(s.data)]]

_createAndWriteObject(s, data, type, offset, crc) ==
    tryWrite([s EXCEPT !.data = data, !.offset = offset, !.crc32 = crc,
                       !.retry = TRUE, !.attempts = 0, !.creates = 0,
                       !.nObjects = @ + 1])

\* mutant: every object is seeded with the progress the first one started
\* from
createAndWriteObjects_FirstSeed(s, objects, type, offset, crc) ==
    IF Len(objects) = 0
    THEN Resolve(s, [offset |-> offset, crc32 |-> crc])
    ELSE _createAndWriteObject([s EXCEPT !.objects = Tail(objects)],
                               Head(objects), type, Arg(s.state.offset),
                               Arg(s.state.crc32))

\* objects.reduce(...): the objects one after the other, each seeded with
\* the progress of the one before; with none left the chain resolves
_createAndWriteObjects(s, objects, type, offset, crc) ==
    IF Len(objects) = 0
    THEN Resolve(s, [offset |-> offset, crc32 |-> crc])
    ELSE _createAndWriteObject([s EXCEPT !.objects = Tail(objects)],
                               Head(objects), type, Arg(offset), Arg(crc))

\* mutant: a failed write of a resumed object is retried as well
Catch_Resumed(s, error) ==
    LET attempts == s.attempts + 1
        s1 == [s EXCEPT !.attempts = attempts]
    IN  IF _shouldRetry(attempts, error) THEN tryWrite(s1) ELSE Reject(s1, error)

\* the catch of tryWrite, or, outside _createAndWriteObject, the rejection
\* of the chain
Catch(s, error) ==
    IF s.retry
    THEN LET attempts == s.attempts + 1
             s1 == [s EXCEPT !.attempts = attempts]
         IN  IF _shouldRetry(attempts, error) THEN tryWrite(s1) ELSE Reject(s1, error)
    ELSE Reject(s, error)

(***************************************************************************)
(* DfuObjectWriter.                                                        *)
(***************************************************************************)
\* writeObject(data, type, offset, crc32): a packet writer over the packets
\* of data, seeded with (offset, crc32), an absent seed being 0
writeObject(data, offset, crc) ==
    [offset |-> IF offset = Undefined THEN 0 ELSE offset[1],
     crc32 |-> IF crc = Undefined THEN Zero32 ELSE crc[1],
     packets |-> splitArray(data, writer.mtuSize)]

\* the packet writer after writing its next packet
writePacket(w) ==
    [offset |-> w.offset + Len(Head(w.packets)),
     crc32 |-> crc32upd(Head(w.packets), w.crc32),
     packets |-> Tail(w.packets)]

\* _writeObject once the writer holds w: with packets to write the writer
\* writes them; with none it resolves at once and _validateProgress issues
\* CALCULATE_CRC
_writeObject(s, w) ==
    IF Len(w.packets) = 0
    THEN [s EXCEPT !.pc = "crc", !.crcResponse = NoCrcResponse,
                   !.nChecksum = @ + 1,
                   !.progress = [offset |-> w.offset, crc32 |-> w.crc32]]
    ELSE [s EXCEPT !.pc = "write", !.crcResponse = NoCrcResponse]

(***************************************************************************)
(* The callbacks of the two send operations on the SELECT response: the    *)
(* transport state and the packet writer they leave.                       *)
(***************************************************************************)
\* mutant: the created object is seeded with the SELECT response
sendInitPacketSelected_Seeded(s, w, response) ==
    LET initPacket == s.payload
        maximumSize == response.maximumSize
        offset == response.offset
        crc == response.crc32
        s1 == [s EXCEPT !.selected = TRUE, !.selectResponse = response]
    IN  IF _validateInitPacketSize(initPacket, maximumSize) # OK
        THEN [t |-> Reject(s1, _validateInitPacketSize(initPacket, maximumSize)),
              pw |-> w]
        ELSE IF _canResumePartiallyWrittenObject(initPacket, offset, crc)
        THEN LET data == SliceFrom(initPacket, offset)
                 nw == writeObject(data, Arg(offset), Arg(crc))
             IN  [t |-> _writeObject([_emitResumeEvent(s1, offset, s.type)
                                        EXCEPT !.resumed = TRUE, !.data = data,
                                               !.offset = Arg(offset),
                                               !.crc32 = Arg(crc),
                                               !.retry = FALSE], nw),
                  pw |-> nw]
        ELSE [t |-> _createAndWriteObject(s1, initPacket, s.type, Arg(offset), Arg(crc)),
              pw |-> w]

sendInitPacketSelected(s, w, response) ==
    LET initPacket == s.payload
        maximumSize == response.maximumSize
        offset == response.offset
        crc == response.crc32
        s1 == [s EXCEPT !.selected = TRUE, !.selectResponse = response]
    IN  IF _validateInitPacketSize(initPacket, maximumSize) # OK
        THEN [t |-> Reject(s1, _validateInitPacketSize(initPacket, maximumSize)),
              pw |-> w]
        ELSE IF _canResumePartiallyWrittenObject(initPacket, offset, crc)
        THEN LET data == SliceFrom(initPacket, offset)
                 nw == writeObject(data, Arg(offset), Arg(crc))
             IN  [t |-> _writeObject([_emitResumeEvent(s1, offset, s.type)
                                        EXCEPT !.resumed = TRUE, !.data = data,
                                               !.offset = Arg(offset),
                                               !.crc32 = Arg(crc),
                                               !.retry = FALSE], nw),
                  pw |-> nw]
        ELSE [t |-> _createAndWriteObject(s1, initPacket, s.type, Undefined, Undefined),
              pw |-> w]

sendFirmwareSelected(s, w, response) ==
    LET state == _getFirmwareState(s.payload, response)
        s1 == [s EXCEPT !.selected = TRUE, !.selectResponse = response,
                        !.state = state]
    IN  IF Len(state.partialObject) > 0
        THEN LET nw == writeObject(state.partialObject, Arg(state.offset),
                                   Arg(state.crc32))
             IN  [t |-> _writeObject([_emitResumeEvent(s1, state.offset, s.type)
                                        EXCEPT !.resumed = TRUE,
                                               !.data = state.partialObject,
                                               !.offset = Arg(state.offset),
                                               !.crc32 = Arg(state.crc32),
                                               !.objects = state.objects,
                                               !.retry = FALSE], nw),
                  pw |-> nw]
        ELSE [t |-> _createAndWriteObjects(s1, state.objects, s.type,
                                           state.offset, state.crc32),
              pw |-> w]

(***************************************************************************)
(* Actions: the public operations, and one per callback of the chain.      *)
(***************************************************************************)
\* the responses other than success a control-point request can end in
RequestErrors == {OPERATION_FAILED, NOTIFICATION_TIMEOUT}

Fault(s) == [s EXCEPT !.faulted = TRUE, !.failed = TRUE]

setMtuSize(mtuSize) ==
    /\ t.pc = "idle"
    /\ writer.mtuSize = DefaultMtuSize
    /\ writer' = [writer EXCEPT !.mtuSize = mtuSize]
    /\ UNCHANGED <<pw, t, target, dfu>>

\* _open: with _isOpen the promise is resolved and SELECT follows, otherwise
\* the adapter is asked to start notifications
Open(s) ==
    [s EXCEPT !.pc = IF s.isOpen THEN "select" ELSE "open",
              !.nStart = IF s.isOpen THEN @ ELSE @ + 1]

sendInitPacket(initPacket) ==
    /\ t.pc = "idle"
    /\ t' = Open(_emitInitializeEvent(
                  [t EXCEPT !.call = "sendInitPacket", !.type = COMMAND,
                            !.payload = initPacket, !.nCalls = @ + 1], COMMAND))
    /\ UNCHANGED <<writer, pw, target, dfu>>

sendFirmware(firmware) ==
    /\ t.pc = "idle"
    /\ t' = Open(_emitInitializeEvent(
                  [t EXCEPT !.call = "sendFirmware", !.type = DATA,
                            !.payload = firmware, !.nCalls = @ + 1], DATA))
    /\ UNCHANGED <<writer, pw, target, dfu>>

abort ==
    /\ Running
    /\ ~writer.abort
    /\ writer' = [writer EXCEPT !.abort = TRUE]
    /\ t' = [t EXCEPT !.faulted = TRUE]
    /\ UNCHANGED <<pw, target, dfu>>

\* the callback of startCharacteristicsNotifications without an error
StartNotificationsDone ==
    /\ t.pc = "open"
    /\ t' = [t EXCEPT !.pc = "select"]
    /\ target' = [target EXCEPT !.notifying = TRUE]
    /\ UNCHANGED <<writer, pw, dfu>>

\* mutant: the error of the adapter is ignored
StartNotificationsError_Ignored ==
    /\ t.pc = "open"
    /\ t' = [Fault(t) EXCEPT !.pc = "select"]
    /\ UNCHANGED <<writer, pw, target, dfu>>

StartNotificationsError ==
    /\ t.pc = "open"
    /\ t' = Reject(Fault(t), NOTIFICATION_START_ERROR)
    /\ UNCHANGED <<writer, pw, target, dfu>>

\* the target's SELECT response
SelectResponse(type) ==
    [maximumSize |-> target.maximumSize,
     offset |-> TargetOffset(type),
     crc32 |-> TargetCrc32(type)]

SelectedInitPacket ==
    /\ t.pc = "select"
    /\ t.call = "sendInitPacket"
    /\ LET r == sendInitPacketSelected(t, pw, SelectResponse(t.type))
       IN  t' = r.t /\ pw' = r.pw
    /\ UNCHANGED <<writer, target, dfu>>

SelectedFirmware ==
    /\ t.pc = "select"
    /\ t.call = "sendFirmware"
    /\ LET r == sendFirmwareSelected(t, pw, SelectResponse(t.type))
       IN  t' = r.t /\ pw' = r.pw
    /\ UNCHANGED <<writer, target, dfu>>

SelectFailed(error) ==
    /\ t.pc = "select"
    /\ t' = Reject(Fault(t), error)
    /\ UNCHANGED <<writer, pw, target, dfu>>

\* createObject resolved: _writeObject starts the writer
Created ==
    /\ t.pc = "create"
    /\ target' = TargetCreate(t.type)
    /\ LET nw == writeObject(t.data, t.offset, t.crc32)
       IN  pw' = nw /\ t' = _writeObject(t, nw)
    /\ UNCHANGED <<writer, dfu>>

\* createObject rejected; a request that timed out may have reached the target
CreateFailed(error) ==
    /\ t.pc = "create"
    /\ t' = Catch(Fault(t), error)
    /\ \/ target' = target
       \/ error = NOTIFICATION_TIMEOUT /\ target' = TargetCreate(t.type)
    /\ UNCHANGED <<writer, pw, dfu>>

\* the writer writes its next packet and emits packetWritten, which the
\* transport forwards; after the last one the writer resolves with its
\* progress and _validateProgress issues CALCULATE_CRC
PacketWritten ==
    /\ t.pc = "write"
    /\ ~writer.abort
    /\ pw' = writePacket(pw)
    /\ target' = TargetWrite(t.type, Head(pw.packets))
    /\ LET s == _emitTransferEvent(t, pw'.offset, t.type)
       IN  t' = IF Len(pw'.packets) = 0
                THEN [s EXCEPT !.nPackets = @ + 1, !.pc = "crc", !.nChecksum = @ + 1,
                               !.progress = [offset |-> pw'.offset, crc32 |-> pw'.crc32]]
                ELSE [s EXCEPT !.nPackets = @ + 1]
    /\ UNCHANGED <<writer, dfu>>

\* mutant: the packet is written and its event emitted before the abort
\* flag is looked at
WriteAborted_Emitting ==
    /\ t.pc = "write"
    /\ writer.abort
    /\ t' = Catch([t EXCEPT !.nPackets = @ + 1], ABORTED)
    /\ UNCHANGED <<writer, pw, target, dfu>>

\* the abort flag is set when the writer is about to write a packet
WriteAborted ==
    /\ t.pc = "write"
    /\ writer.abort
    /\ t' = Catch(t, ABORTED)
    /\ UNCHANGED <<writer, pw, target, dfu>>

\* another 32-bit word than c
OtherCrc(c) == <<c[1], (c[2] + 1) % 65536>>

\* the callback of _validateProgress on a CALCULATE_CRC response; the target
\* reports its offset and crc32, or (a fault) other values
Validated(dOffset, wrongCrc) ==
    /\ t.pc = "crc"
    /\ LET response == [offset |-> TargetOffset(t.type) + dOffset,
                        crc32 |-> IF wrongCrc THEN OtherCrc(TargetCrc32(t.type))
                                  ELSE TargetCrc32(t.type)]
           s == [t EXCEPT !.crcResponse = [received |-> TRUE,
                                          offset |-> response.offset,
                                          crc32 |-> response.crc32],
                          !.faulted = @ \/ dOffset # 0 \/ wrongCrc,
                          !.failed = @ \/ dOffset # 0 \/ wrongCrc
                                      \/ _validateProgress(t.progress, response) # OK]
           v == _validateProgress(t.progress, response)
       IN  t' = IF v = OK
                THEN [s EXCEPT !.pc = "execute", !.nExecute = @ + 1]
                ELSE Catch(s, v)
    /\ UNCHANGED <<writer, pw, target, dfu>>

ValidateFailed(error) ==
    /\ t.pc = "crc"
    /\ t' = Catch(Fault(t), error)
    /\ UNCHANGED <<writer, pw, target, dfu>>

\* execute resolved: the object is done and the chain goes on with its
\* progress
Executed ==
    /\ t.pc = "execute"
    /\ target' = TargetExecute(t.type)
    /\ t' = _createAndWriteObjects([t EXCEPT !.nExecuted = @ + 1], t.objects, t.type,
                                   t.progress.offset, t.progress.crc32)
    /\ UNCHANGED <<writer, pw, dfu>>

ExecuteFailed(error) ==
    /\ t.pc = "execute"
    /\ t' = Catch(Fault(t), error)
    /\ \/ target' = target
       \/ error = NOTIFICATION_TIMEOUT /\ target' = TargetExecute(t.type)
    /\ UNCHANGED <<writer, pw, dfu>>

Next ==
    \/ \E mtuSize \in 1..MaxMtu : setMtuSize(mtuSize)
    \/ \E len \in 0..MaxLen : sendInitPacket(Payload(len))
    \/ \E len \in 0..MaxLen : sendFirmware(Payload(len))
    \/ abort
    \/ StartNotificationsDone
    \/ StartNotificationsError
    \/ SelectedInitPacket
    \/ SelectedFirmware
    \/ \E error \in RequestErrors : SelectFailed(error)
    \/ Created
    \/ \E error \in RequestErrors : CreateFailed(error)
    \/ PacketWritten
    \/ WriteAborted
    \/ \E dOffset \in {0, 1}, wrongCrc \in BOOLEAN : Validated(dOffset, wrongCrc)
    \/ \E error \in RequestErrors : ValidateFailed(error)
    \/ Executed
    \/ \E error \in RequestErrors : ExecuteFailed(error)

Spec == Init /\ [][Next]_vars

(***************************************************************************)
(* Several operations on one transport: send operations one after the      *)
(* other, setPrn and close at any time.                                    *)
(***************************************************************************)
\* a send operation has settled and its caller goes on: the chain and what
\* it counted are gone, the transport stays
NextCall ==
    /\ t.pc = "settled"
    /\ t.nCalls < MaxCalls
    /\ t' = [NewTransport EXCEPT !.isOpen = t.isOpen,
                                 !.prn = t.prn, !.closing = t.closing,
                                 !.nCalls = t.nCalls, !.nClose = t.nClose,
                                 !.nStart = t.nStart, !.nStop = t.nStop]
    /\ pw' = IdlePacketWriter
    /\ UNCHANGED <<writer, target, dfu>>

\* mutant: the writer's PRN is set when setPrn is called
setPrn_WriterFirst(prn) ==
    /\ t.prn.pc \in {"idle", "settled"}
    /\ t.prn.nCalls < MaxCalls
    /\ t' = [t EXCEPT !.prn = [pc |-> IF t.isOpen THEN "request" ELSE "open",
                               n |-> prn, result |-> None,
                               nCalls |-> t.prn.nCalls + 1],
                      !.nStart = IF t.isOpen THEN @ ELSE @ + 1]
    /\ writer' = [writer EXCEPT !.prn = prn]
    /\ UNCHANGED <<pw, target, dfu>>

\* setPrn(prn): _open, then SET_PRN is issued
setPrn(prn) ==
    /\ t.prn.pc \in {"idle", "settled"}
    /\ t.prn.nCalls < MaxCalls
    /\ t' = [t EXCEPT !.prn = [pc |-> IF t.isOpen THEN "request" ELSE "open",
                               n |-> prn, result |-> None,
                               nCalls |-> t.prn.nCalls + 1],
                      !.nStart = IF t.isOpen THEN @ ELSE @ + 1]
    /\ UNCHANGED <<writer, pw, target, dfu>>

\* the callback of startCharacteristicsNotifications in setPrn
PrnNotificationsStarted ==
    /\ t.prn.pc = "open"
    /\ t' = [t EXCEPT !.prn.pc = "request"]
    /\ target' = [target EXCEPT !.notifying = TRUE]
    /\ UNCHANGED <<writer, pw, dfu>>

PrnNotificationsError ==
    /\ t.prn.pc = "open"
    /\ t' = [t EXCEPT !.prn.pc = "settled", !.prn.result = NOTIFICATION_START_ERROR]
    /\ UNCHANGED <<writer, pw, target, dfu>>

\* the target answered SET_PRN with success: the writer's PRN is set
SetPrnDone ==
    /\ t.prn.pc = "request"
    /\ target' = [target EXCEPT !.prn = t.prn.n]
    /\ writer' = [writer EXCEPT !.prn = t.prn.n]
    /\ t' = [t EXCEPT !.prn.pc = "settled", !.prn.result = OK]
    /\ UNCHANGED <<pw, dfu>>

\* setPRN rejected; a request that timed out may have reached the target
SetPrnFailed(error) ==
    /\ t.prn.pc = "request"
    /\ t' = [t EXCEPT !.prn.pc = "settled", !.prn.result = error]
    /\ \/ target' = target
       \/ error = NOTIFICATION_TIMEOUT /\ target' = [target EXCEPT !.prn = t.prn.n]
    /\ UNCHANGED <<writer, pw, dfu>>

\* close(): resolved at once unless _isOpen, else the adapter is asked to
\* stop notifications
close ==
    /\ t.nClose < MaxCalls
    /\ t' = [t EXCEPT !.nClose = @ + 1,
                      !.nStop = IF t.isOpen THEN @ + 1 ELSE @,
                      !.closing = IF t.isOpen
                                  THEN [NoCall EXCEPT !.pc = "stop"]
                                  ELSE [NoCall EXCEPT !.pc = "settled", !.result = OK]]
    /\ UNCHANGED <<writer, pw, target, dfu>>

\* a fresh target that accepts one byte per object
LifecycleInit ==
    /\ Init
    /\ target.maximumSize = 1
    /\ TargetOffset(COMMAND) = 0
    /\ TargetOffset(DATA) = 0

LifecycleNext ==
    \/ \E len \in 0..MaxLifeLen : sendInitPacket(Payload(len))
    \/ \E len \in 0..MaxLifeLen : sendFirmware(Payload(len))
    \/ NextCall
    \/ \E prn \in 1..MaxPrn : setPrn(prn)
    \/ PrnNotificationsStarted
    \/ PrnNotificationsError
    \/ SetPrnDone
    \/ \E error \in RequestErrors : SetPrnFailed(error)
    \/ close
    \/ StartNotificationsDone
    \/ StartNotificationsError
    \/ SelectedInitPacket
    \/ SelectedFirmware
    \/ \E error \in RequestErrors : SelectFailed(error)
    \/ Created
    \/ PacketWritten
    \/ Validated(0, FALSE)
    \/ Executed

Lifecycle == LifecycleInit /\ [][LifecycleNext]_vars

(***************************************************************************)
(* One send operation whose requests all end: the adapter calls back on    *)
(* every request to start notifications, every control-point request ends  *)
(* in a response, an error or NOTIFICATION_TIMEOUT, and every packet write *)
(* ends or meets the abort flag.                                           *)
(***************************************************************************)
\* a target that accepts one byte per object and holds few bytes
LiveInit ==
    /\ Init
    /\ target.maximumSize = 1
    /\ TargetOffset(COMMAND) <= MaxLiveTarget
    /\ TargetOffset(DATA) <= MaxLiveTarget

\* the callbacks of the chain: what ends a request or a packet write
Responses ==
    \/ StartNotificationsDone
    \/ StartNotificationsError
    \/ SelectedInitPacket
    \/ SelectedFirmware
    \/ \E error \in RequestErrors : SelectFailed(error)
    \/ Created
    \/ \E error \in RequestErrors : CreateFailed(error)
    \/ PacketWritten
    \/ WriteAborted
    \/ \E dOffset \in {0, 1}, wrongCrc \in BOOLEAN : Validated(dOffset, wrongCrc)
    \/ \E error \in RequestErrors : ValidateFailed(error)
    \/ Executed
    \/ \E error \in RequestErrors : ExecuteFailed(error)

LiveNext ==
    \/ \E len \in 0..MaxLiveLen : sendInitPacket(Payload(len))
    \/ \E len \in 0..MaxLiveLen : sendFirmware(Payload(len))
    \/ abort
    \/ Responses

LiveSpec == LiveInit /\ [][LiveNext]_vars /\ WF_vars(Responses)

(***************************************************************************)
(* The Dfu controller (dfu.js).  performDFU loads the package and waits    *)
(* for _fetchUpdates; _fetchUpdates is a chain of promises, and every      *)
(* callback of a promise runs as a job of the job queue, in the order in   *)
(* which the jobs were queued.  One action runs the job at the head of the *)
(* queue; a job is named after what it runs and holds the index of its     *)
(* update type.                                                            *)
(***************************************************************************)
Job(job, i) == [job |-> job, i |-> i]

Transport == <<writer, pw, t, target>>

\* promiseChain.then(...): what follows createUpdatePromise(UpdateTypes[i])
NextInChain(i) ==
    IF i < Len(UpdateTypes) THEN Job("createUpdate", i + 1)
    ELSE Job("resolveUpdates", i)

\* as createUpdatePromise, its result taken for a plain value: the chain
\* goes on without waiting for the promise returned
createUpdatePromise_Plain(d, i) ==
    LET present == UpdateTypes[i] \in d.manifest
    IN  [d EXCEPT !.remaining[i] = IF present THEN 2 ELSE @,
                  !.queue = @ \o (IF present
                                  THEN <<Job("resolveElement", i),
                                         Job("resolveElement", i)>>
                                  ELSE <<>>)
                              \o <<NextInChain(i)>>]

\* () => createUpdatePromise(updateType): Promise.all queues one job per
\* element, the promise returned resolves at once, and the chain's promise,
\* resolved with a promise, queues the job that asks for its then
createUpdatePromise(d, i) ==
    LET present == UpdateTypes[i] \in d.manifest
    IN  [d EXCEPT !.remaining[i] = IF present THEN 2 ELSE @,
                  !.queue = @ \o (IF present
                                  THEN <<Job("resolveElement", i),
                                         Job("resolveElement", i)>>
                                  ELSE <<>>)
                              \o <<Job("resolveThenable", i)>>]

\* performDFU, up to the call of _fetchUpdates
performDFU(zipFilePath, adapter, instanceId) ==
    /\ dfu.pc = "idle"
    /\ LET d == [dfu EXCEPT !.zipFilePath = zipFilePath \/ @,
                            !.adapter = adapter \/ @,
                            !.instanceId = instanceId \/ @]
       IN  dfu' = IF d.zipFilePath /\ d.adapter /\ d.instanceId
                  THEN [d EXCEPT !.pc = "loading", !.thrown = FALSE]
                  ELSE [d EXCEPT !.thrown = TRUE]
    /\ UNCHANGED Transport

\* the zip and its manifest are there: the callback of _fetchUpdates builds
\* the chain, whose first promise is resolved already
PackageLoaded(manifest, absent) ==
    /\ dfu.pc = "loading"
    /\ dfu' = [dfu EXCEPT !.pc = "fetching", !.manifest = manifest,
                          !.absent = absent, !.updates = <<>>,
                          !.queue = <<Job("createUpdate", 1)>>]
    /\ UNCHANGED Transport

\* what can be wrong with a package before its manifest is there, and the
\* error getManifest or _loadZip hands to its callback: the error of
\* fs.readFile or JSZip for a zip that cannot be read, the TypeError of
\* zip.file("manifest.json").async on null for a zip without manifest.json,
\* the SyntaxError of JSON.parse for a manifest.json that is no JSON
PackageFaults == {"unreadable", "no manifest.json", "invalid JSON"}
PackageError(fault) ==
    CASE fault = "unreadable" -> "Error"
      [] fault = "no manifest.json" -> "TypeError"
      [] fault = "invalid JSON" -> "SyntaxError"

\* _loadZipAsync or _getManifestAsync rejects: _fetchUpdates rejects with
\* the same error and performDFU logs it
PackageFailed(fault) ==
    /\ dfu.pc = "loading"
    /\ dfu' = [dfu EXCEPT !.pc = "done", !.fault = fault,
                          !.logged = PackageError(fault)]
    /\ UNCHANGED Transport

RunsJob(job) == dfu.queue # <<>> /\ Head(dfu.queue).job = job
JobIndex == Head(dfu.queue).i
Dequeued == [dfu EXCEPT !.queue = Tail(@)]

CreateUpdate ==
    /\ RunsJob("createUpdate")
    /\ dfu' = createUpdatePromise(Dequeued, JobIndex)
    /\ UNCHANGED Transport

\* Promise.all takes one element; with the last one its promise resolves
ResolveElement ==
    /\ RunsJob("resolveElement")
    /\ dfu' = [Dequeued EXCEPT
                 !.remaining[JobIndex] = @ - 1,
                 !.queue = IF dfu.remaining[JobIndex] = 1
                           THEN Append(@, Job("pushUpdate", JobIndex))
                           ELSE @]
    /\ UNCHANGED Transport

\* the promise createUpdatePromise returned is resolved already
ResolveThenable ==
    /\ RunsJob("resolveThenable")
    /\ dfu' = [Dequeued EXCEPT !.queue = Append(@, Job("chainResolved", JobIndex))]
    /\ UNCHANGED Transport

\* ([initPacket, firmware]) => updates.push(...)
PushUpdate ==
    /\ RunsJob("pushUpdate")
    /\ dfu' = [Dequeued EXCEPT
                 !.updates = Append(@, UpdateTypes[JobIndex]),
                 !.queue = Append(@, Job("catch", JobIndex))]
    /\ UNCHANGED Transport

\* .catch(err => reject(err)) of a push that did not fail
CatchPassed ==
    /\ RunsJob("catch")
    /\ dfu' = Dequeued
    /\ UNCHANGED Transport

ChainResolved ==
    /\ RunsJob("chainResolved")
    /\ dfu' = [Dequeued EXCEPT !.queue = Append(@, NextInChain(JobIndex))]
    /\ UNCHANGED Transport

\* promiseChain.then(() => resolve(updates))
ResolveUpdates ==
    /\ RunsJob("resolveUpdates")
    /\ dfu' = [Dequeued EXCEPT !.resolved = TRUE,
                               !.queue = Append(@, Job("updatesFetched", JobIndex))]
    /\ UNCHANGED Transport

\* performDFU's updates => { updates[0]['initPacket']()... }: without a
\* first update, or without its dat_file in the zip, the call throws a
\* TypeError and the catch logs it
UpdatesFetched ==
    /\ RunsJob("updatesFetched")
    /\ dfu' = IF dfu.updates = <<>> \/ dfu.updates[1] \in dfu.absent
              THEN [Dequeued EXCEPT !.pc = "done", !.logged = "TypeError"]
              ELSE [Dequeued EXCEPT !.pc = "reading"]
    /\ UNCHANGED Transport

\* .then(data => console.log(data)); a read that fails is logged nowhere
InitPacketRead(read) ==
    /\ dfu.pc = "reading"
    /\ dfu' = [dfu EXCEPT !.pc = "done",
                          !.logged = IF read THEN "initPacket" ELSE None]
    /\ UNCHANGED Transport

DfuNext ==
    \/ \E zipFilePath \in BOOLEAN, adapter \in BOOLEAN, instanceId \in BOOLEAN :
         performDFU(zipFilePath, adapter, instanceId)
    \/ \E manifest \in SUBSET ManifestKeys :
         \E absent \in SUBSET (manifest \ {"unknown"}) : PackageLoaded(manifest, absent)
    \/ \E fault \in PackageFaults : PackageFailed(fault)
    \/ CreateUpdate
    \/ ResolveElement
    \/ ResolveThenable
    \/ PushUpdate
    \/ CatchPassed
    \/ ChainResolved
    \/ ResolveUpdates
    \/ UpdatesFetched
    \/ \E read \in BOOLEAN : InitPacketRead(read)

DfuSpec == LifecycleInit /\ [][DfuNext]_vars

(***************************************************************************)
(* What the claims speak of.                                               *)
(***************************************************************************)
Settled == t.pc = "settled"
Succeeded == Settled /\ t.result = OK
InitPacketCall == t.call = "sendInitPacket"
FirmwareCall == t.call = "sendFirmware"

\* ceil(a / b)
Ceil(a, b) == (a + b - 1) \div b

\* the errors an attempt of create-and-write can fail with
AttemptErrors ==
    {OPERATION_FAILED, NOTIFICATION_TIMEOUT, ABORTED, INVALID_OFFSET, INVALID_CRC}

\* the CALCULATE_CRC response Validated(dOffset, wrongCrc) handles
ChecksumResponse(dOffset, wrongCrc) ==
    [offset |-> TargetOffset(t.type) + dOffset,
     crc32 |-> IF wrongCrc THEN OtherCrc(TargetCrc32(t.type)) ELSE TargetCrc32(t.type)]

\* this step is an attempt (CREATE, packet write, validation or EXECUTE)
\* failing with error
AttemptFails(error) ==
    \/ CreateFailed(error)
    \/ error = ABORTED /\ WriteAborted
    \/ ValidateFailed(error)
    \/ \E dOffset \in {0, 1}, wrongCrc \in BOOLEAN :
         /\ Validated(dOffset, wrongCrc)
         /\ LET r == ChecksumResponse(dOffset, wrongCrc)
            IN  \/ error = INVALID_OFFSET /\ r.offset # t.progress.offset
                \/ /\ error = INVALID_CRC
                   /\ r.offset = t.progress.offset
                   /\ r.crc32 # t.progress.crc32
    \/ ExecuteFailed(error)

\* the bytes a send operation has to write after its SELECT response and
\* the seed it writes them from, as the callback on the response decided
BytesToSend ==
    IF FirmwareCall THEN t.state.partialObject \o Concat(t.state.objects)
    ELSE IF t.resumed THEN SubSeq(t.payload, t.selectResponse.offset + 1, Len(t.payload))
    ELSE t.payload
SeedOffset ==
    IF FirmwareCall THEN t.state.offset
    ELSE IF t.resumed THEN t.selectResponse.offset ELSE 0
SeedCrc32 ==
    IF FirmwareCall THEN t.state.crc32
    ELSE IF t.resumed THEN t.selectResponse.crc32 ELSE Zero32
\* the objects it has to execute
ObjectsToExecute ==
    IF FirmwareCall
    THEN Len(t.state.objects) + (IF Len(t.state.partialObject) > 0 THEN 1 ELSE 0)
    ELSE 1

(***************************************************************************)
(* C1.  In create-and-write of one object a failed attempt (CREATE, packet *)
(* write, validation or EXECUTE) is retried, with a new CREATE for the     *)
(* same data and seed, if and only if fewer than 3 attempts have been made *)
(* and the error is neither ABORTED nor NOTIFICATION_TIMEOUT; otherwise    *)
(* the error propagates with no further CREATE.  At most 3 CREATE are      *)
(* issued for one object, and a send operation that succeeds, retries or   *)
(* not, has executed the objects and reached the (offset, crc32) that its  *)
(* SELECT response determined.                                             *)
(***************************************************************************)
C1_RetryStep ==
    \A error \in AttemptErrors :
      (t.retry /\ AttemptFails(error)) =>
        IF t.attempts + 1 < 3 /\ error \notin {ABORTED, NOTIFICATION_TIMEOUT}
        THEN /\ t'.pc = "create"
             /\ t'.nCreate = t.nCreate + 1
             /\ t'.attempts = t.attempts + 1
             /\ t'.data = t.data /\ t'.offset = t.offset /\ t'.crc32 = t.crc32
             /\ t'.objects = t.objects
        ELSE /\ t'.pc = "settled"
             /\ t'.result = error
             /\ t'.nCreate = t.nCreate

C1_Bounded == t.creates <= 3 /\ (t.retry => t.creates = t.attempts + (IF Settled /\ t.result # OK THEN 0 ELSE 1))

C1_SameResult ==
    Succeeded =>
      /\ t.nExecuted = ObjectsToExecute
      /\ t.progress.offset = SeedOffset + Len(BytesToSend)
      /\ t.progress.crc32 = crc32upd(BytesToSend, SeedCrc32)

C1_Retry == [][C1_RetryStep]_vars /\ [](C1_Bounded) /\ [](C1_SameResult)

\* a send operation succeeded after the third attempt at an object
C1_Witness == Succeeded /\ t.attempts = 2 /\ t.creates = 3 /\ t.nObjects >= 2

(***************************************************************************)
(* C2.  An EXECUTE request is issued for an object only after the writer   *)
(* has written all of it and a CALCULATE_CRC response arrived whose offset *)
(* and crc32 both equal the progress the writer returned; an attempt whose *)
(* writer or validation fails issues no EXECUTE.                           *)
(***************************************************************************)
SeedOf(arg, default) == IF arg = Undefined THEN default ELSE arg[1]

C2_ExecuteInFlight ==
    t.pc = "execute" =>
      /\ Len(pw.packets) = 0
      /\ t.progress = [offset |-> pw.offset, crc32 |-> pw.crc32]
      /\ pw.offset = SeedOf(t.offset, 0) + Len(t.data)
      /\ t.crcResponse.received
      /\ t.crcResponse.offset = t.progress.offset
      /\ t.crcResponse.crc32 = t.progress.crc32

C2_ExecuteStep ==
    /\ t'.nExecute # t.nExecute =>
         t.pc = "crc" /\ t'.pc = "execute" /\ t'.nExecute = t.nExecute + 1
    /\ (t'.pc = "execute" /\ t.pc # "execute") =>
         t.pc = "crc" /\ t'.nExecute = t.nExecute + 1
    /\ \A error \in {ABORTED, INVALID_OFFSET, INVALID_CRC} :
         AttemptFails(error) => t'.nExecute = t.nExecute /\ t'.pc # "execute"

C2_ExecuteAfterValidation == [](C2_ExecuteInFlight) /\ [][C2_ExecuteStep]_vars

\* an EXECUTE is in flight in an attempt that follows a failed validation
C2_Witness == t.pc = "execute" /\ t.attempts >= 1 /\ t.faulted /\ Len(t.data) >= 2

(***************************************************************************)
(* C3.  Once SELECT(Command) has answered (maximum_size, offset, crc32)    *)
(* for an init packet that fits maximum_size, sendInitPacket resumes (a    *)
(* resume event, no CREATE, only init_packet[offset..] is written, seeded  *)
(* with the response's offset and crc32) if and only if                    *)
(* 0 < offset <= len(init_packet) and crc32 = crc32(init_packet[0..offset]); *)
(* in every other case, offset = 0 included, it issues                     *)
(* CREATE(Command, len(init_packet)) and writes the whole init packet.     *)
(***************************************************************************)
InitPacketFits == Len(t.payload) <= t.selectResponse.maximumSize
Resumable ==
    /\ 0 < t.selectResponse.offset
    /\ t.selectResponse.offset <= Len(t.payload)
    /\ t.selectResponse.crc32 = crc32(SubSeq(t.payload, 1, t.selectResponse.offset))

C4_Original ==
    (/\ InitPacketCall /\ t.selected
     /\ t.selectResponse.offset <= Len(t.payload)
     /\ t.selectResponse.crc32 = crc32(SubSeq(t.payload, 1, t.selectResponse.offset)))
      => t.nCreate = 0

C4_NoCreateWhenResumable ==
    (InitPacketCall /\ t.selected /\ Resumable) =>
      t.nCreate = 0 /\ t.creates = 0 /\ t.pc # "create"

\* a fully written init packet is being executed without a CREATE
C4_Witness ==
    /\ InitPacketCall /\ t.pc = "execute" /\ Resumable
    /\ t.selectResponse.offset = Len(t.payload)
    /\ t.nCreate = 0

(***************************************************************************)
(* C5.  If the init packet is longer than the maximum_size of the          *)
(* SELECT(Command) response, sendInitPacket rejects with                   *)
(* INIT_PACKET_TOO_LARGE, having issued no CREATE, packet write,           *)
(* CALCULATE_CRC or EXECUTE and made no retry; with                        *)
(* len(init_packet) <= maximum_size the error is never raised.             *)
(***************************************************************************)
C5_TooLarge ==
    /\ (InitPacketCall /\ t.selected /\ ~InitPacketFits) =>
         /\ Settled /\ t.result = INIT_PACKET_TOO_LARGE
         /\ t.nCreate = 0 /\ t.nPackets = 0 /\ t.nChecksum = 0 /\ t.nExecute = 0
         /\ t.attempts = 0 /\ t.creates = 0 /\ ~t.resumed
    /\ t.result = INIT_PACKET_TOO_LARGE =>
         InitPacketCall /\ t.selected /\ ~InitPacketFits

\* an init packet the target held the first bytes of is refused as too large
C5_Witness ==
    /\ InitPacketCall /\ t.result = INIT_PACKET_TOO_LARGE
    /\ Resumable
    /\ Len(t.payload) = t.selectResponse.maximumSize + 1

(***************************************************************************)
(* C6.  In the non-resume branch sendInitPacket issues                     *)
(* CREATE(Command, len(init_packet)) and then writes the whole init packet *)
(* from offset 0 and crc32 0: the writer's offset and crc32 are at every   *)
(* moment those of the bytes written so far, and on success the progress   *)
(* is (len(init_packet), crc32(init_packet)).                              *)
(***************************************************************************)
C6_CreateBranch ==
    (InitPacketCall /\ t.selected /\ InitPacketFits /\ ~Resumable) =>
      /\ t.lastCreate = [type |-> COMMAND, size |-> Len(t.payload)]
      /\ t.creates >= 1
      /\ t.pc \in {"write", "crc", "execute"} =>
           /\ pw.offset + Len(Concat(pw.packets)) = Len(t.payload)
           /\ pw.crc32 = crc32(SubSeq(t.payload, 1, pw.offset))
           /\ Concat(pw.packets) = SubSeq(t.payload, pw.offset + 1, Len(t.payload))
      /\ Succeeded =>
           t.progress = [offset |-> Len(t.payload), crc32 |-> crc32(t.payload)]

\* an init packet was created and written over what the target held
C6_Witness ==
    /\ InitPacketCall /\ Succeeded /\ ~t.resumed
    /\ t.selectResponse.offset > 0
    /\ Len(t.payload) >= 2

(***************************************************************************)
(* C7.  As claimed: on a fresh target (SELECT(Data) answers offset 0) a    *)
(* sendFirmware that succeeds has emitted ceil(len(firmware) / max_size)   *)
(* EXECUTE requests.  (C7_Original; an EXECUTE that fails is retried and   *)
(* emitted again.)                                                         *)
(* As amended: ceil(len(firmware) / max_size) EXECUTE requests have        *)
(* succeeded, and as many were emitted if no request failed.               *)
(***************************************************************************)
FreshFirmware == FirmwareCall /\ t.selected /\ t.selectResponse.offset = 0
ObjectCount == Ceil(Len(t.payload), t.selectResponse.maximumSize)

C7_Original == (FreshFirmware /\ Succeeded) => t.nExecute = ObjectCount

C7_Executed ==
    (FreshFirmware /\ Succeeded) =>
      /\ t.nExecuted = ObjectCount
      /\ t.nExecute >= ObjectCount
      /\ ~t.faulted => t.nExecute = ObjectCount

\* a firmware of several objects, the last one shorter, was sent to a fresh
\* target with an EXECUTE retried
C7_Witness ==
    /\ FreshFirmware /\ Succeeded
    /\ ObjectCount >= 2
    /\ Len(t.payload) % t.selectResponse.maximumSize # 0
    /\ t.nExecute > t.nExecuted

(***************************************************************************)
(* C8.  On a fresh target and with no failure sendFirmware issues for the  *)
(* objects i = 1..ceil(L/M) in order CREATE(Data, size_i), the packets of  *)
(* the object, CALCULATE_CRC and EXECUTE; object i+1 is created only after *)
(* the EXECUTE of object i succeeded and is seeded with the offset and     *)
(* crc32 object i ended with; the offset at the i-th EXECUTE is            *)
(* min(i*M, L).                                                            *)
(***************************************************************************)
ObjStart(i) == (i - 1) * t.selectResponse.maximumSize
ObjEnd(i) == Min(i * t.selectResponse.maximumSize, Len(t.payload))
PacketCount(len) == Ceil(len, writer.mtuSize)
\* the packets of the objects before object i, all of the maximum size
PacketsBefore(i) == (i - 1) * PacketCount(t.selectResponse.maximumSize)

C8_InOrder ==
    (FreshFirmware /\ ~t.faulted) =>
      LET i == t.nObjects
      IN  /\ ~t.resumed /\ t.attempts = 0
          /\ i <= ObjectCount
          /\ t.pc \in {"create", "write", "crc", "execute"} =>
               /\ i >= 1
               /\ t.nCreate = i
               /\ t.lastCreate = [type |-> DATA, size |-> ObjEnd(i) - ObjStart(i)]
               /\ t.data = SubSeq(t.payload, ObjStart(i) + 1, ObjEnd(i))
               /\ t.offset = Arg(ObjStart(i))
               /\ t.crc32 = Arg(crc32(SubSeq(t.payload, 1, ObjStart(i))))
               /\ t.nExecuted = i - 1
               /\ Len(t.objects) = ObjectCount - i
          /\ t.pc = "create" =>
               t.nPackets = PacketsBefore(i) /\ t.nChecksum = i - 1 /\ t.nExecute = i - 1
          /\ t.pc = "write" =>
               /\ t.nPackets < PacketsBefore(i) + PacketCount(Len(t.data))
               /\ t.nPackets >= PacketsBefore(i)
               /\ pw.offset >= ObjStart(i) /\ pw.offset < ObjEnd(i)
               /\ t.nChecksum = i - 1 /\ t.nExecute = i - 1
          /\ t.pc = "crc" =>
               /\ t.nPackets = PacketsBefore(i) + PacketCount(Len(t.data))
               /\ t.nChecksum = i /\ t.nExecute = i - 1
               /\ t.progress.offset = ObjEnd(i)
          /\ t.pc = "execute" =>
               /\ t.nPackets = PacketsBefore(i) + PacketCount(Len(t.data))
               /\ t.nChecksum = i /\ t.nExecute = i
               /\ t.progress = [offset |-> ObjEnd(i),
                                crc32 |-> crc32(SubSeq(t.payload, 1, ObjEnd(i)))]
          /\ Settled =>
               /\ t.result = OK
               /\ i = ObjectCount /\ t.nCreate = i /\ t.nExecute = i /\ t.nExecuted = i
               /\ t.progress = [offset |-> Len(t.payload), crc32 |-> crc32(t.payload)]

\* the second object of a firmware, shorter than the first, is being
\* executed after a transfer without failure
C8_Witness ==
    /\ FreshFirmware /\ ~t.faulted /\ t.pc = "execute"
    /\ t.nObjects = 2
    /\ Len(t.data) < t.selectResponse.maximumSize
    /\ t.nPackets >= 3

(***************************************************************************)
(* C9.  As claimed: in the Data flow, when SELECT reports a partially      *)
(* written object (offset not 0, not len(firmware), not a multiple of      *)
(* max_size) whose crc32 differs from crc32(firmware[0..offset]), the      *)
(* start offset is the greatest multiple of max_size at or below offset,   *)
(* the start crc32 is crc32(firmware[0..start offset]), no partial object  *)
(* is resumed and the first command is the CREATE of the object starting   *)
(* at that boundary, also for offsets inside a final object shorter than   *)
(* max_size.  (C9_Claim; the code computes                                 *)
(* offset - max_size + len(partial), which is below the boundary when the  *)
(* partial object was cut at the end of the firmware.)                     *)
(***************************************************************************)
\* SELECT reported an object partially written inside the firmware
PartialObjectReported ==
    /\ FirmwareCall /\ t.selected
    /\ 0 < t.selectResponse.offset
    /\ t.selectResponse.offset < Len(t.payload)
    /\ t.selectResponse.offset % t.selectResponse.maximumSize # 0
CrcMismatch ==
    t.selectResponse.crc32 # crc32(SubSeq(t.payload, 1, t.selectResponse.offset))
\* the last object boundary at or below the offset SELECT reported
Boundary ==
    (t.selectResponse.offset \div t.selectResponse.maximumSize)
      * t.selectResponse.maximumSize

C9_Claim ==
    (PartialObjectReported /\ CrcMismatch) =>
      /\ t.state.offset = Boundary
      /\ t.state.crc32 = crc32(SubSeq(t.payload, 1, Boundary))
      /\ t.state.partialObject = <<>>
      /\ ~t.resumed
      /\ (t.pc = "create" /\ t.nCreate = 1) =>
           /\ t.lastCreate = [type |-> DATA,
                              size |-> Min(t.selectResponse.maximumSize,
                                           Len(t.payload) - Boundary)]
           /\ t.offset = Arg(Boundary)
           /\ t.nPackets = 0 /\ t.nChecksum = 0 /\ t.nExecute = 0

(***************************************************************************)
(* C10.  As claimed: in sendFirmware a SELECT response whose crc32 does    *)
(* not match crc32(firmware[0..offset]) never surfaces an error: against a *)
(* target that follows the protocol, with no request failing, the          *)
(* operation re-creates the current object and succeeds.  (C10_Claim; the  *)
(* start offset below the boundary makes the validation of the re-created  *)
(* object fail with INVALID_OFFSET until the retries are used up.)         *)
(***************************************************************************)
\* the objects the target had executed before the operation are a prefix
\* of the firmware
ExecutedIsFirmware ==
    t.nExecuted = 0 =>
      /\ Len(target[DATA].exec) <= Len(t.payload)
      /\ target[DATA].exec = SubSeq(t.payload, 1, Len(target[DATA].exec))

C10_Claim ==
    (/\ PartialObjectReported /\ CrcMismatch
     /\ ExecutedIsFirmware
     /\ ~t.faulted
     /\ Settled) => t.result = OK

(***************************************************************************)
(* C11.  In sendFirmware, when SELECT reports a partially written object   *)
(* whose crc32 is crc32(firmware[0..offset]), the transport emits the      *)
(* resume event and writes the rest of that object,                        *)
(* firmware[offset .. offset + max_size - offset mod max_size], seeded     *)
(* with (offset, crc32) and without a CREATE for it, validates and         *)
(* executes it, and only then creates and writes the remaining objects,    *)
(* the first of them seeded with the progress of the partial write.        *)
(***************************************************************************)
\* the end of the object SELECT reported as partially written
PartialEnd == Min(Boundary + t.selectResponse.maximumSize, Len(t.payload))
\* the objects after it
ObjectsAfter == Ceil(Len(t.payload) - PartialEnd, t.selectResponse.maximumSize)

C11_ResumePartial ==
    (PartialObjectReported /\ ~CrcMismatch) =>
      /\ t.resumed
      /\ t.state.offset = t.selectResponse.offset
      /\ t.state.crc32 = t.selectResponse.crc32
      /\ t.state.partialObject
           = SubSeq(t.payload, t.selectResponse.offset + 1, PartialEnd)
      /\ Concat(t.state.objects) = SubSeq(t.payload, PartialEnd + 1, Len(t.payload))
      /\ Len(t.state.objects) = ObjectsAfter
      \* the partial object: written from (offset, crc32), no CREATE
      /\ t.nObjects = 0 =>
           /\ t.nCreate = 0
           /\ t.pc \in {"write", "crc", "execute", "settled"}
           /\ t.data = t.state.partialObject
           /\ t.offset = Arg(t.selectResponse.offset)
           /\ t.crc32 = Arg(t.selectResponse.crc32)
           /\ t.pc \in {"write", "crc", "execute"} =>
                /\ t.nExecuted = 0
                /\ pw.offset + Len(Concat(pw.packets)) = PartialEnd
                /\ pw.crc32 = crc32(SubSeq(t.payload, 1, pw.offset))
           /\ t.pc = "execute" =>
                t.progress = [offset |-> PartialEnd,
                              crc32 |-> crc32(SubSeq(t.payload, 1, PartialEnd))]
      \* the objects after it: created once it is executed
      /\ t.nCreate >= 1 => t.nExecuted >= 1 /\ t.nObjects >= 1
      /\ (t.nObjects = 1 /\ t.pc # "settled") =>
           /\ t.nExecuted = 1
           /\ t.offset = Arg(PartialEnd)
           /\ t.crc32 = Arg(crc32(SubSeq(t.payload, 1, PartialEnd)))
           /\ t.data = SubSeq(t.payload, PartialEnd + 1,
                              Min(PartialEnd + t.selectResponse.maximumSize,
                                  Len(t.payload)))
           /\ t.lastCreate = [type |-> DATA, size |-> Len(t.data)]
      /\ Succeeded =>
           /\ t.nExecuted = 1 + ObjectsAfter
           /\ t.progress = [offset |-> Len(t.payload), crc32 |-> crc32(t.payload)]

\* a firmware was resumed inside its first object and sent to the end, an
\* object being created after the resumed one
C11_Witness ==
    /\ PartialObjectReported /\ ~CrcMismatch
    /\ Succeeded /\ ~t.faulted
    /\ t.nCreate = 1 /\ t.nExecuted = 2

(***************************************************************************)
(* C12.  As claimed: when abort() is called during a firmware transfer,    *)
(* the next packet write fails with ABORTED, no further control-point      *)
(* command is issued, no remaining object is attempted and sendFirmware    *)
(* rejects with ABORTED.  (C12_Original; abort() called after the last     *)
(* packet of the transfer was written meets no packet write, and           *)
(* sendFirmware resolves.)                                                 *)
(* As amended: when abort() is called before the last packet of the        *)
(* transfer has been written, no packet is written after it, the next      *)
(* packet write fails with ABORTED, after which no control-point command   *)
(* is issued and no remaining object is attempted, and sendFirmware        *)
(* rejects with ABORTED.                                                   *)
(***************************************************************************)
RECURSIVE PacketsOf(_)
\* the packets of a sequence of objects
PacketsOf(objects) ==
    IF Len(objects) = 0 THEN 0
    ELSE PacketCount(Len(Head(objects))) + PacketsOf(Tail(objects))
\* the packets a firmware transfer without failure writes
TransferPackets == PacketCount(Len(t.state.partialObject)) + PacketsOf(t.state.objects)

C12_AbortedWrite ==
    (FirmwareCall /\ t.pc = "write" /\ writer.abort) =>
      /\ t'.pc = "settled" /\ t'.result = ABORTED
      /\ t'.nCreate = t.nCreate /\ t'.nChecksum = t.nChecksum
      /\ t'.nExecute = t.nExecute /\ t'.nPackets = t.nPackets
      /\ t'.nObjects = t.nObjects /\ t'.objects = t.objects
      /\ target' = target
C12_NoPacketAfterAbort ==
    writer.abort => writer'.abort /\ t'.nPackets = t.nPackets
C12_Rejects ==
    /\ (/\ FirmwareCall /\ t.selected
        /\ writer.abort /\ ~t.failed
        /\ t.nPackets < TransferPackets
        /\ Settled) => t.result = ABORTED
    /\ (FirmwareCall /\ t.result = ABORTED) =>
         /\ writer.abort /\ Settled
         /\ Len(pw.packets) > 0
         /\ t.nExecuted < ObjectsToExecute

TotalPackets ==
    IF FirmwareCall THEN TransferPackets ELSE PacketCount(Len(BytesToSend))

\* from the call of abort() on no event is emitted
C13_EventsStop == writer'.abort => t'.nPackets = t.nPackets
C13_ThenAborted ==
    (/\ t.selected /\ Settled
     /\ writer.abort /\ ~t.failed
     /\ t.result # INIT_PACKET_TOO_LARGE
     /\ t.nPackets + 1 <= TotalPackets) =>
       /\ t.result = ABORTED
       /\ Len(pw.packets) >= 1
       /\ t.nPackets + Len(pw.packets) <= TotalPackets

WriteObjectReturns == t.pc = "execute" /\ t'.nExecuted = t.nExecuted + 1
\* the progress it resolves with, as the next state holds it: the result of
\* the send operation or the seed of the next object
ReturnedProgress ==
    IF t'.pc = "settled" THEN t'.progress
    ELSE [offset |-> SeedOf(t'.offset, -1), crc32 |-> SeedOf(t'.crc32, Ones)]

C14_ReturnedProgress ==
    WriteObjectReturns =>
      /\ ReturnedProgress.offset = SeedOf(t.offset, 0) + Len(t.data)
      /\ ReturnedProgress.crc32 = crc32upd(t.data, SeedOf(t.crc32, Zero32))
      /\ t.crcResponse = [received |-> TRUE,
                          offset |-> ReturnedProgress.offset,
                          crc32 |-> ReturnedProgress.crc32]

C14_WriteObject == [][C14_ReturnedProgress]_vars

\* the write of an object of two bytes or more returned its progress to the
\* object after it
C14_Witness ==
    /\ t.pc = "create" /\ t.attempts = 0
    /\ t.nExecuted >= 1
    /\ t.offset = Arg(t.progress.offset) /\ t.crc32 = Arg(t.progress.crc32)
    /\ t.progress.offset >= 2

(***************************************************************************)
(* C15.  As claimed: the transport is Closed when constructed and Open     *)
(* once an operation that requires notifications (setPrn, sendInitPacket,  *)
(* sendFirmware) has enabled them; from then on, until close() is called,  *)
(* no operation asks the adapter to start notifications again.             *)
(* (C15_Claim; _open never sets _isOpen, so every operation asks the       *)
(* adapter again.)                                                         *)
(***************************************************************************)
C15_NoSecondStart ==
    (target.notifying /\ t.nClose = 0) => t'.nStart = t.nStart

C15_Claim == [][C15_NoSecondStart]_vars

(***************************************************************************)
(* C16.  As claimed: close() on a transport that an earlier operation      *)
(* opened asks the adapter to stop the notifications of the control point; *)
(* close() on a Closed transport resolves without a call of the adapter.   *)
(* (C16_Claim; _isOpen is never true, so close() never calls the           *)
(* adapter.)                                                               *)
(***************************************************************************)
C16_CloseStep ==
    t'.nClose = t.nClose + 1 =>
      IF target.notifying
      THEN t'.nStop = t.nStop + 1 /\ t'.closing.pc = "stop"
      ELSE /\ t'.nStop = t.nStop
           /\ t'.closing.pc = "settled" /\ t'.closing.result = OK

C16_Claim == [][C16_CloseStep]_vars

(***************************************************************************)
(* C17.  setPrn(n) opens the transport, then sends SET_PRN(n), and sets    *)
(* the writer's PRN to n only when the target answered with success, so    *)
(* that once setPrn has resolved target and writer both use n; if opening  *)
(* or SET_PRN fails, setPrn rejects and the writer's PRN is as it was.     *)
(***************************************************************************)
C17_Step ==
    \* SET_PRN is issued once _open has resolved
    /\ (t'.prn.pc = "request" /\ t.prn.pc # "request") =>
         \/ t.prn.pc = "open" /\ target'.notifying
         \/ t.isOpen
    \* the writer's PRN changes with the success response and not otherwise
    /\ writer'.prn # writer.prn =>
         /\ t.prn.pc = "request"
         /\ t'.prn.pc = "settled" /\ t'.prn.result = OK
    /\ (t.prn.pc # "settled" /\ t'.prn.pc = "settled") =>
         IF t'.prn.result = OK
         THEN /\ t.prn.pc = "request"
              /\ writer'.prn = t.prn.n /\ target'.prn = t.prn.n
         ELSE /\ writer'.prn = writer.prn
              /\ t'.prn.result \in {NOTIFICATION_START_ERROR} \cup RequestErrors
              /\ t.prn.pc = "open" => target'.prn = target.prn

C17_Resolved ==
    (t.prn.pc = "settled" /\ t.prn.result = OK) =>
      writer.prn = t.prn.n /\ target.prn = t.prn.n

RequestsInFlight ==
    (IF t.pc \in {"select", "create", "crc", "execute"} THEN 1 ELSE 0)
      + (IF t.prn.pc = "request" THEN 1 ELSE 0)

C18_Claim == RequestsInFlight <= 1


(***************************************************************************)
(* C19.  performDFU goes through the update types in the order softdevice, *)
(* bootloader, softdevice_bootloader, application and, for each one the    *)
(* package holds, calls sendInitPacket and then sendFirmware on one        *)
(* shared transport: when performDFU is done with a package it could       *)
(* read, the transport has been asked for two send operations per update.  *)
(***************************************************************************)
PerformedDfu == dfu.pc = "done" /\ dfu.logged = "initPacket"

C19_Claim == PerformedDfu => t.nCalls = 2 * Len(dfu.updates)

(***************************************************************************)
(* C20.  For every manifest the updates of _fetchUpdates hold one entry    *)
(* for each update type the manifest has, in the order softdevice,         *)
(* bootloader, softdevice_bootloader, application; a type the manifest     *)
(* lacks and a key that is no update type add no entry; and the list is    *)
(* complete from the moment the promise of _fetchUpdates resolves.  Until  *)
(* then it is a beginning of that list.                                    *)
(***************************************************************************)
Recognised(manifest) == SelectSeq(UpdateTypes, LAMBDA updateType : updateType \in manifest)

IsPrefix(a, b) == Len(a) <= Len(b) /\ a = SubSeq(b, 1, Len(a))

C20_FetchUpdates ==
    /\ IsPrefix(dfu.updates, Recognised(dfu.manifest))
    /\ dfu.resolved => dfu.updates = Recognised(dfu.manifest)

C20_Witness ==
    /\ dfu.resolved
    /\ dfu.manifest = {"application", "unknown", "softdevice"}
    /\ dfu.updates = <<"softdevice", "application">>

(***************************************************************************)
(* C21.  Loading a package fails with PACKAGE_INVALID when the zip has no  *)
(* manifest.json, when manifest.json is no JSON, or when an entry of the   *)
(* manifest names a dat_file or bin_file the zip lacks; in none of these   *)
(* cases is a list of updates produced.                                    *)
(***************************************************************************)
PACKAGE_INVALID == "PACKAGE_INVALID"

PackageInvalid ==
    \/ dfu.fault \in {"no manifest.json", "invalid JSON"}
    \/ dfu.absent # {}

C21_Claim ==
    PackageInvalid =>
      /\ ~dfu.resolved
      /\ dfu.pc = "done" => dfu.logged = PACKAGE_INVALID

(***************************************************************************)
(* C22.  As claimed: when SELECT reports offset = len(payload), either     *)
(* send operation has nothing to send and succeeds at once, with no        *)
(* CREATE and no packet written (C22_Original).                            *)
(* As amended: sendFirmware then issues no further request, writes no      *)
(* packet and resolves at once with the (offset, crc32) of the response.   *)
(* sendInitPacket, for an init packet that fits maximum_size, is not       *)
(* empty and whose CRC-32 the response reports, issues no CREATE and       *)
(* writes no packet but validates and executes what the target holds       *)
(* (CALCULATE_CRC, EXECUTE), and resolves with (len, crc32(init packet))   *)
(* unless one of the two fails; with any other crc32 it issues             *)
(* CREATE(Command, len) and writes the whole init packet.                  *)
(***************************************************************************)
NothingToSend == t.selected /\ t.selectResponse.offset = Len(t.payload)

C22_Original ==
    NothingToSend => (t.nCreate = 0 /\ t.nPackets = 0 /\ Succeeded)

C22_Firmware ==
    (FirmwareCall /\ NothingToSend) =>
      /\ Succeeded
      /\ t.nCreate = 0 /\ t.nPackets = 0 /\ t.nChecksum = 0 /\ t.nExecute = 0
      /\ t.progress = [offset |-> t.selectResponse.offset,
                       crc32 |-> t.selectResponse.crc32]

C22_InitPacket ==
    (InitPacketCall /\ NothingToSend /\ InitPacketFits /\ Len(t.payload) > 0) =>
      IF t.selectResponse.crc32 = crc32(t.payload)
      THEN /\ t.nCreate = 0 /\ t.nPackets = 0
           /\ t.pc \in {"crc", "execute", "settled"}
           /\ t.nChecksum = 1 /\ t.nExecute <= 1
           /\ (Settled /\ ~t.failed) => (Succeeded /\ t.nExecuted = 1)
           /\ Succeeded => t.progress = [offset |-> Len(t.payload),
                                         crc32 |-> crc32(t.payload)]
      ELSE /\ t.nCreate >= 1
           /\ t.lastCreate = [type |-> COMMAND, size |-> Len(t.payload)]
           /\ t.data = t.payload

C22_NothingToSend == C22_Firmware /\ C22_InitPacket

\* an init packet the target held whole was validated and executed, no
\* packet written
C22_Witness ==
    /\ InitPacketCall /\ NothingToSend /\ Succeeded
    /\ Len(t.payload) >= 2 /\ t.nExecuted = 1 /\ t.nPackets = 0

(***************************************************************************)
(* C23.  The progressUpdate events of one send operation, in order: one    *)
(* 'Initializing <kind>' event with offset 0, emitted when the operation   *)
(* is called, before the adapter is asked to start notifications and       *)
(* before any request; then a 'Resuming <kind> transfer' event with the    *)
(* resume offset if and only if a partially written object is resumed,     *)
(* before any packet is written; then one 'Transferring <kind>' event per  *)
(* packet written, with the writer's offset after that packet.  <kind> is  *)
(* 'init packet' for sendInitPacket and 'firmware' for sendFirmware.       *)
(***************************************************************************)
Kind == IF InitPacketCall THEN "init packet" ELSE "firmware"

\* the callback on the SELECT response resumes a partially written object
ResumesObject ==
    /\ t.selected
    /\ IF InitPacketCall
       THEN InitPacketFits /\ Resumable
       ELSE /\ 0 < t.selectResponse.offset
            /\ t.selectResponse.offset < Len(t.payload)
            /\ t.selectResponse.offset % t.selectResponse.maximumSize # 0
            /\ t.selectResponse.crc32 =
                 crc32(SubSeq(t.payload, 1, t.selectResponse.offset))

\* the events emitted after the Initializing and the Resuming event
TransferEvents ==
    SubSeq(t.events, (IF ResumesObject THEN 3 ELSE 2), Len(t.events))

C23_Order ==
    (t.call # None) =>
      /\ Len(t.events) >= 1
      /\ t.events[1] = [stage |-> "Initializing " \o Kind, offset |-> 0]
      /\ ResumesObject =>
           /\ Len(t.events) >= 2
           /\ t.events[2] = [stage |-> "Resuming " \o Kind \o " transfer",
                             offset |-> t.selectResponse.offset]
      /\ Len(TransferEvents) = t.nPackets
      /\ \A i \in 1..Len(TransferEvents) :
           TransferEvents[i].stage = "Transferring " \o Kind
      /\ (t.pc = "open" \/ ~t.selected) => Len(t.events) = 1

\* a packet written is one more event, with the offset the writer reached
C23_PacketEvent ==
    IF PacketWritten
    THEN t'.events = Append(t.events, [stage |-> "Transferring " \o Kind,
                                       offset |-> pw.offset + Len(Head(pw.packets))])
    ELSE (t.call # None /\ t'.call = t.call /\ t'.nCalls = t.nCalls /\ t.selected)
           => t'.events = t.events

C23_ProgressEvents == [](C23_Order) /\ [][C23_PacketEvent]_vars

\* a resumed firmware transfer: the three kinds of event, the packets of
\* the partial object and of a created object
C23_Witness ==
    /\ FirmwareCall /\ Succeeded /\ ResumesObject
    /\ Len(t.events) >= 4
    /\ t.events[2].offset = 1
    /\ t.events[3].offset = 2
    /\ t.nCreate >= 1

(***************************************************************************)
(* C24.  Whenever sendFirmware resolves, the progress it resolves with is  *)
(* (len(firmware), crc32(firmware)): its offset is the number of bytes of  *)
(* the firmware the target holds and its crc32 the CRC-32 of those bytes,  *)
(* whatever the SELECT response was (offset = len(firmware),               *)
(* offset > len(firmware) and a crc32 that does not match included).       *)
(***************************************************************************)
C24_Claim ==
    (FirmwareCall /\ Succeeded) =>
      t.progress = [offset |-> Len(t.payload), crc32 |-> crc32(t.payload)]

(***************************************************************************)
(* C25.  For every firmware, maximum_size > 0 and SELECT response with     *)
(* offset <= len(firmware), the firmware state splits the firmware         *)
(* exactly: its start offset lies in the firmware, and the firmware up to  *)
(* the start offset, then the partial object, then the objects one after   *)
(* the other are the firmware; every object has between 1 and              *)
(* maximum_size bytes and every object but the last has maximum_size; on   *)
(* a fresh target there are ceil(L/M) objects, the last one of L mod M     *)
(* bytes, or of M when that is 0.                                          *)
(***************************************************************************)
FirmwareStateComputed ==
    FirmwareCall /\ t.selected /\ t.selectResponse.offset <= Len(t.payload)

C25_Claim ==
    FirmwareStateComputed =>
      LET firmware == t.payload
          M == t.selectResponse.maximumSize
          objects == t.state.objects
      IN  /\ t.state.offset \in 0..Len(firmware)
          /\ SubSeq(firmware, 1, t.state.offset) \o t.state.partialObject
               \o Concat(objects) = firmware
          /\ \A i \in 1..Len(objects) :
               /\ Len(objects[i]) \in 1..M
               /\ i < Len(objects) => Len(objects[i]) = M
          /\ t.selectResponse.offset = 0 =>
               /\ Len(objects) = Ceil(Len(firmware), M)
               /\ Len(firmware) > 0 =>
                    Len(objects[Len(objects)]) =
                      (IF Len(firmware) % M = 0 THEN M ELSE Len(firmware) % M)

(***************************************************************************)
(* C26.  The validation after the write of an object fails with            *)
(* INVALID_OFFSET when the offset of the CALCULATE_CRC response is not     *)
(* the writer's offset, whatever the crc32, and with INVALID_CRC when the  *)
(* offsets are equal and the crc32 values differ; it succeeds, and         *)
(* EXECUTE is issued, only when both are equal.  A validation that fails   *)
(* issues no EXECUTE; its error is what the attempt fails with: the        *)
(* object is created again or the operation rejects with that error.       *)
(***************************************************************************)
C26_Verdict(response) ==
    IF response.offset # t.progress.offset THEN INVALID_OFFSET
    ELSE IF response.crc32 # t.progress.crc32 THEN INVALID_CRC
    ELSE OK

C26_Step ==
    \A dOffset \in {0, 1}, wrongCrc \in BOOLEAN :
      Validated(dOffset, wrongCrc) =>
        LET verdict == C26_Verdict(ChecksumResponse(dOffset, wrongCrc))
        IN  IF verdict = OK
            THEN t'.pc = "execute" /\ t'.nExecute = t.nExecute + 1
            ELSE /\ t'.nExecute = t.nExecute
                 /\ IF t.retry /\ t.attempts + 1 < 3
                    THEN t'.pc = "create" /\ t'.attempts = t.attempts + 1
                    ELSE t'.pc = "settled" /\ t'.result = verdict

\* what a rejected validation leaves
C26_Rejected ==
    (Settled /\ t.crcResponse.received) =>
      /\ t.result = INVALID_OFFSET <=> t.crcResponse.offset # t.progress.offset
      /\ t.result = INVALID_CRC <=>
           /\ t.crcResponse.offset = t.progress.offset
           /\ t.crcResponse.crc32 # t.progress.crc32

C26_Validation == [][C26_Step]_vars /\ [](C26_Rejected)

\* a response wrong in offset and crc32 ended the operation
C26_Witness ==
    /\ Settled /\ t.result = INVALID_OFFSET
    /\ t.crcResponse.received
    /\ t.crcResponse.offset # t.progress.offset
    /\ t.crcResponse.crc32 # t.progress.crc32
    /\ t.attempts = 3

(***************************************************************************)
(* C27.  When the adapter reports an error on the request to start the     *)
(* notifications of the control point, the operation that asked (setPrn,   *)
(* sendInitPacket or sendFirmware) rejects with NOTIFICATION_START_ERROR   *)
(* and has issued no control-point request (SELECT, SET_PRN, CREATE,       *)
(* CALCULATE_CRC, EXECUTE) and written no packet; the PRN of the writer    *)
(* is what it was.                                                         *)
(***************************************************************************)
C27_Step ==
    /\ StartNotificationsError =>
         /\ t'.pc = "settled" /\ t'.result = NOTIFICATION_START_ERROR
         /\ writer' = writer /\ pw' = pw /\ target' = target
    /\ PrnNotificationsError =>
         /\ t'.prn.pc = "settled" /\ t'.prn.result = NOTIFICATION_START_ERROR
         /\ writer' = writer /\ pw' = pw /\ target' = target
    \* a send operation whose open is pending has issued nothing, and it
    \* issues SELECT only when the adapter reports no error
    /\ t.pc = "open" =>
         /\ ~t.selected
         /\ t.nCreate = 0 /\ t.nPackets = 0 /\ t.nChecksum = 0 /\ t.nExecute = 0
         /\ t'.pc \in {"open", "select", "settled"}
         /\ t'.pc = "select" => target'.notifying
         /\ t'.pc = "settled" => t'.result = NOTIFICATION_START_ERROR
    \* nor has setPrn
    /\ t.prn.pc = "open" =>
         /\ t'.prn.pc \in {"open", "request", "settled"}
         /\ t'.prn.pc = "request" => target'.notifying
         /\ t'.prn.pc = "settled" =>
              /\ t'.prn.result = NOTIFICATION_START_ERROR
              /\ writer'.prn = writer.prn /\ target'.prn = target.prn

C27_Rejected ==
    (Settled /\ t.result = NOTIFICATION_START_ERROR) =>
      /\ ~t.selected
      /\ t.nCreate = 0 /\ t.nPackets = 0 /\ t.nChecksum = 0 /\ t.nExecute = 0

C27_StartError == [][C27_Step]_vars /\ [](C27_Rejected)

\* a send operation and a second setPrn were both rejected; the writer has
\* the PRN of the first setPrn
C27_Witness ==
    /\ Settled /\ t.result = NOTIFICATION_START_ERROR
    /\ t.prn.pc = "settled" /\ t.prn.result = NOTIFICATION_START_ERROR
    /\ t.prn.n = 2 /\ writer.prn = 1

(***************************************************************************)
(* C28.  A failure in the write, the validation or the EXECUTE of a        *)
(* resumed partially written object (the resume branch of sendInitPacket,  *)
(* the partial object of sendFirmware) ends the operation at once with     *)
(* that error, whatever it is: nothing is retried and no CREATE is         *)
(* issued.  Attempts are counted, and objects written again, only for the  *)
(* objects the transport creates.                                          *)
(***************************************************************************)
\* the resumed object is being written, validated or executed
ResumedObjectInProgress ==
    t.resumed /\ t.nObjects = 0 /\ t.pc \in {"write", "crc", "execute"}

C28_Step ==
    \A error \in AttemptErrors :
      (ResumedObjectInProgress /\ AttemptFails(error)) =>
        /\ t'.pc = "settled" /\ t'.result = error
        /\ t'.nCreate = 0 /\ t'.attempts = 0
        /\ t'.nPackets = t.nPackets /\ t'.nChecksum = t.nChecksum
        /\ t'.nExecute = t.nExecute
        /\ t'.objects = t.objects

C28_OnlyCreated ==
    /\ ResumedObjectInProgress => (t.nCreate = 0 /\ t.attempts = 0)
    /\ t.attempts > 0 => (t.nObjects >= 1 /\ t.nCreate >= 1)
    /\ (t.resumed /\ Settled /\ t.nObjects = 0 /\ t.result # OK) =>
         (t.nCreate = 0 /\ t.nChecksum <= 1 /\ t.nExecute <= 1)

C28_NoRetryOnResume == [][C28_Step]_vars /\ [](C28_OnlyCreated)

\* the validation of the partial object of a firmware failed on a wrong
\* crc32 and the objects after it were not attempted
C28_Witness ==
    /\ FirmwareCall /\ t.resumed /\ Settled /\ t.result = INVALID_CRC
    /\ t.nObjects = 0 /\ t.nCreate = 0 /\ t.nPackets >= 1
    /\ Len(t.objects) >= 1

(***************************************************************************)
(* C29.  If the adapter calls back on every call and every control-point   *)
(* request and packet write ends (in a response, an error or               *)
(* NOTIFICATION_TIMEOUT), every sendInitPacket and sendFirmware call       *)
(* settles.  Retries are bounded: each object is created at most 3 times,  *)
(* so a firmware of L bytes against maximum_size M gets at most            *)
(* 3 * ceil(L/M) CREATE requests and an init packet at most 3; and once    *)
(* an object has used up its attempts the operation rejects, with no       *)
(* further CREATE and no later object attempted.                           *)
(***************************************************************************)
C29_Settles == (t.call # None) ~> Settled

C29_Bounded ==
    /\ t.creates <= 3
    /\ ~t.selected => t.nCreate = 0
    /\ (InitPacketCall /\ t.selected) => t.nCreate <= 3
    /\ (FirmwareCall /\ t.selected) =>
         /\ t.nCreate <= 3 * Ceil(Len(t.payload), t.selectResponse.maximumSize)
         /\ t.nObjects <= Ceil(Len(t.payload), t.selectResponse.maximumSize)
         /\ t.nObjects + Len(t.objects) = Len(t.state.objects)

C29_Exhausted ==
    /\ \A error \in AttemptErrors :
         (t.retry /\ t.attempts + 1 >= 3 /\ AttemptFails(error)) =>
           /\ t'.pc = "settled" /\ t'.result = error
           /\ t'.nCreate = t.nCreate
           /\ t'.nObjects = t.nObjects /\ t'.objects = t.objects
    /\ Settled => t' = t

C29_Terminates == C29_Settles /\ [](C29_Bounded) /\ [][C29_Exhausted]_vars

\* the first of two objects used up its three attempts; the second was not
\* attempted
C29_Witness ==
    /\ FirmwareCall /\ Settled /\ t.result = INVALID_CRC
    /\ t.attempts = 3 /\ t.nCreate = 3
    /\ t.nObjects = 1 /\ Len(t.objects) = 1

=============================================================================
